---- MODULE Spec2Model ----
(***************************************************************************)
(* Model of moldel/Layers/ExamDrop/ExamDropExtractor.py: the Exam Drop     *)
(* Extractor (get_train_data / get_predict_data) and its greedy bin        *)
(* allocator get_num_bins.                                                 *)
(*                                                                         *)
(* Numbers: entropies are exact integers here (the code uses floats), and  *)
(* fractions are percentages (0.05 is 5); a weight 1 / n is the pair       *)
(* <<1, n>>.                                                               *)
(***************************************************************************)
EXTENDS Integers, Sequences, FiniteSets, TLC

VARIABLES
    train_input,   \* get_num_bins: the matrix it is called with (a sequence of rows)
    max_splits,    \* get_num_bins: its max_splits argument
    ent,           \* the value __entropy returns for (feature, bins) on train_input
    num_bins,      \* get_num_bins: local num_bins
    max_bins,      \* get_num_bins: local max_bins
    entropies,     \* get_num_bins: local entropies
    options,       \* get_num_bins: the PriorityQueue, as the sequence of its entries
    splits_done,   \* get_num_bins: iterations of "for _ in range(max_splits)" begun
    pc,            \* get_num_bins: position ("start", "loop", "done")
    EXAM_DATA,     \* Data.ExamData.Exams.All.EXAM_DATA: season -> its answers
    ctor_args,     \* the arguments ExamDropExtractor(...) was constructed with
    self,          \* the ExamDropExtractor object: its private attributes
    call,          \* the last call on self: its data, intermediate matrices, outcome
    train_calls    \* calls of get_train_data made on self

alloc_vars == <<train_input, max_splits, num_bins, max_bins, entropies, options,
                splits_done, pc>>
extractor_vars == <<EXAM_DATA, ctor_args, self, call, train_calls>>
vars == <<alloc_vars, ent, extractor_vars>>

-----------------------------------------------------------------------------
(* Bounds of the model *)

NumFeatures == 2     \* columns of the matrices get_num_bins is called with
NumRows == 4         \* rows of those matrices (so at most NumRows distinct values)
MaxSplits == 2       \* largest max_splits get_num_bins is called with

EntropyValues == {0, 1}   \* the values __entropy may return

-----------------------------------------------------------------------------
(* Helpers *)

Min(a, b) == IF a < b THEN a ELSE b
Max(a, b) == IF a > b THEN a ELSE b

RECURSIVE SumSeq(_)
SumSeq(s) == IF s = <<>> THEN 0 ELSE Head(s) + SumSeq(Tail(s))

RemoveAt(s, k) == [j \in 1..(Len(s) - 1) |-> IF j < k THEN s[j] ELSE s[j + 1]]

-----------------------------------------------------------------------------
(* queue.PriorityQueue of tuples (priority, feature)                       *)

\* Python's order on tuples
TupleLess(a, b) == a[1] < b[1] \/ (a[1] = b[1] /\ a[2] < b[2])

\* PriorityQueue.put
PQPut(q, e) == Append(q, e)

\* a max-heap instead of a min-heap
PQMaxIndex(q) == CHOOSE k \in 1..Len(q) : \A j \in 1..Len(q) : ~TupleLess(q[k], q[j])

\* index of the entry PriorityQueue.get returns: a smallest one
PQMinIndex(q) == CHOOSE k \in 1..Len(q) : \A j \in 1..Len(q) : ~TupleLess(q[j], q[k])

-----------------------------------------------------------------------------
(* get_num_bins                                                            *)

\* number of columns: len(train_input[0])
Width(input) == Len(input[1])

\* __entropy(column i, bins): the entropy of the k-means split of column i into
\* `bins` bins; a fixed function of the column and bins, given by the table e
entropy(e, i, bins) ==
    IF i \in DOMAIN e /\ bins \in DOMAIN e[i] THEN e[i][bins] ELSE 0

\* line 147
MaxBinsOf(input) ==
    [i \in 1..Width(input) |-> Cardinality({input[r][i] : r \in 1..Len(input)})]

\* lines 146-155 with "max_bins[i] >= 2" for "max_bins[i] > 2"
AllocSetupOffByOne(e, input) ==
    LET mb == MaxBinsOf(input)
        es == [i \in 1..Width(input) |-> entropy(e, i, 2)]
        all == [i \in 1..Width(input) |-> <<-(entropy(e, i, 3) - es[i]), i>>]
    IN  [num_bins |-> [i \in 1..Width(input) |-> 2],
         max_bins |-> mb,
         entropies |-> es,
         options |-> SelectSeq(all, LAMBDA o : mb[o[2]] >= 2)]

\* lines 146-155: the state before the loop
AllocSetup(e, input) ==
    LET mb == MaxBinsOf(input)
        es == [i \in 1..Width(input) |-> entropy(e, i, 2)]
        all == [i \in 1..Width(input) |-> <<-(entropy(e, i, 3) - es[i]), i>>]
    IN  [num_bins |-> [i \in 1..Width(input) |-> 2],
         max_bins |-> mb,
         entropies |-> es,
         options |-> SelectSeq(all, LAMBDA o : mb[o[2]] > 2)]

\* lines 161-167 with "num_bins[i] - 1" for "num_bins[i] + 1"
AllocStepDecrement(e, s) ==
    LET k == PQMinIndex(s.options)
        got == s.options[k]
        i == got[2]
        nb == [s.num_bins EXCEPT ![i] = @ - 1]
        es == [s.entropies EXCEPT ![i] = @ - got[1]]
        rest == RemoveAt(s.options, k)
    IN  [num_bins |-> nb,
         max_bins |-> s.max_bins,
         entropies |-> es,
         options |-> IF nb[i] # s.max_bins[i]
                     THEN PQPut(rest, <<-(entropy(e, i, nb[i] + 1) - es[i]), i>>)
                     ELSE rest]

\* lines 161-167 without the test "num_bins[i] != max_bins[i]"
AllocStepAlwaysPush(e, s) ==
    LET k == PQMinIndex(s.options)
        got == s.options[k]
        i == got[2]
        nb == [s.num_bins EXCEPT ![i] = @ + 1]
        es == [s.entropies EXCEPT ![i] = @ - got[1]]
        rest == RemoveAt(s.options, k)
    IN  [num_bins |-> nb,
         max_bins |-> s.max_bins,
         entropies |-> es,
         options |-> PQPut(rest, <<-(entropy(e, i, nb[i] + 1) - es[i]), i>>)]

\* lines 161-167: one iteration of the loop that passed the options.empty() test
AllocStep(e, s) ==
    LET k == PQMinIndex(s.options)
        got == s.options[k]
        i == got[2]
        nb == [s.num_bins EXCEPT ![i] = @ + 1]
        es == [s.entropies EXCEPT ![i] = @ - got[1]]
        rest == RemoveAt(s.options, k)
    IN  [num_bins |-> nb,
         max_bins |-> s.max_bins,
         entropies |-> es,
         options |-> IF nb[i] # s.max_bins[i]
                     THEN PQPut(rest, <<-(entropy(e, i, nb[i] + 1) - es[i]), i>>)
                     ELSE rest]

\* lines 157-159: the loop runs while iterations are left and options is not empty
RECURSIVE AllocLoop(_, _, _)
AllocLoop(e, s, n) ==
    IF n <= 0 \/ s.options = <<>> THEN s ELSE AllocLoop(e, AllocStep(e, s), n - 1)

\* get_num_bins(train_input, max_splits)
get_num_bins(e, input, splits) == AllocLoop(e, AllocSetup(e, input), splits).num_bins

-----------------------------------------------------------------------------
(* SpecAlloc: calls of the static method get_num_bins, run step by step    *)

\* a column of NumRows rows with exactly d distinct values
ColumnWith(d) == [r \in 1..NumRows |-> IF r <= d THEN r - 1 ELSE d - 1]

MatrixWith(d) == [r \in 1..NumRows |-> [i \in 1..NumFeatures |-> ColumnWith(d[i])[r]]]

\* a feature: its number d of distinct values, and any value of __entropy for
\* each number of bins it is called with (2 to max(2, d))
FeatureChoices ==
    {[distinct |-> d, entropy |-> t] :
        d \in 1..NumRows, t \in UNION {[2..Max(2, m) -> EntropyValues] : m \in 1..NumRows}}

InitAlloc ==
    /\ \E c \in [1..NumFeatures -> {f \in FeatureChoices :
                                      DOMAIN f.entropy = 2..Max(2, f.distinct)}] :
          /\ train_input = MatrixWith([i \in 1..NumFeatures |-> c[i].distinct])
          /\ ent = [i \in 1..NumFeatures |-> c[i].entropy]
    /\ max_splits \in 0..MaxSplits
    /\ num_bins = <<>>
    /\ max_bins = <<>>
    /\ entropies = <<>>
    /\ options = <<>>
    /\ splits_done = 0
    /\ pc = "start"
    /\ EXAM_DATA = <<>>
    /\ ctor_args = <<>>
    /\ self = <<>>
    /\ call = <<>>
    /\ train_calls = 0

\* lines 146-155
Setup ==
    /\ pc = "start"
    /\ LET s == AllocSetup(ent, train_input)
       IN  /\ num_bins' = s.num_bins
           /\ max_bins' = s.max_bins
           /\ entropies' = s.entropies
           /\ options' = s.options
    /\ pc' = "loop"
    /\ UNCHANGED <<train_input, max_splits, ent, splits_done, extractor_vars>>

\* lines 157-167: one iteration that does not break
Iterate ==
    /\ pc = "loop"
    /\ splits_done < max_splits
    /\ options # <<>>
    /\ LET s == AllocStep(ent, [num_bins |-> num_bins, max_bins |-> max_bins,
                                entropies |-> entropies, options |-> options])
       IN  /\ num_bins' = s.num_bins
           /\ entropies' = s.entropies
           /\ options' = s.options
    /\ splits_done' = splits_done + 1
    /\ UNCHANGED <<train_input, max_splits, ent, max_bins, pc, extractor_vars>>

\* lines 158-159 and 169: break or range exhausted, then return num_bins
Return ==
    /\ pc = "loop"
    /\ splits_done >= max_splits \/ options = <<>>
    /\ pc' = "done"
    /\ UNCHANGED <<train_input, max_splits, ent, num_bins, max_bins, entropies,
                   options, splits_done, extractor_vars>>

NextAlloc == Setup \/ Iterate \/ Return

SpecAlloc == InitAlloc /\ [][NextAlloc]_vars

-----------------------------------------------------------------------------
(* The data the extractor reads: EXAM_DATA, episodes, players              *)

TrainSeason == 21
PredictSeason == 22
maxsize == 2147483647     \* sys.maxsize

MaxAnswers == 4      \* answers in EXAM_DATA, all seasons together

Players == {"p1", "p2"}
Episodes == {1, 2}
Seasons == {TrainSeason, PredictSeason}

\* Episode.players: the candidates of an episode, in order
EpisodePlayers(ep) == IF ep = 1 THEN <<"p1", "p2">> ELSE <<"p2">>

\* the execution drops of a season: player -> the episodes the player dropped in
DropTables == {[p \in Players |-> IF p = "p1" THEN <<1>> ELSE <<2>>],
               [p \in Players |-> <<1>>]}

\* Data.PlayerData.get_is_mol
get_is_mol(p) == p = "p2"

\* one recorded answer (Answer: player, episode, question, answer)
Answers ==
    {a \in [player : Players, episode : Episodes, question : {1}, answer : {{"p2"}}] :
        \E k \in 1..Len(EpisodePlayers(a.episode)) : EpisodePlayers(a.episode)[k] = a.player}

\* a season of EXAM_DATA: its answers in order, and its execution drops
SeasonData(answers, drops) == [answers |-> answers, drops |-> drops]

AnswerLists == UNION {[1..n -> Answers] : n \in 0..MaxAnswers}

RECURSIVE Flatten(_)
Flatten(ss) == IF ss = <<>> THEN <<>> ELSE Head(ss) \o Flatten(Tail(ss))

MinOf(s) == CHOOSE x \in {s[k] : k \in 1..Len(s)} : \A k \in 1..Len(s) : x <= s[k]

\* Season.get_drop_mapping(DropType.EXECUTION_DROP, max_episode)
get_drop_mapping(data, season_num, max_episode) ==
    LET upto(p) == SelectSeq(data[season_num].drops[p], LAMBDA e : e <= max_episode)
    IN  [p \in {q \in Players : upto(q) # <<>>} |-> upto(p)]

\* Season.get_all_answers(players, max_episode)
season_get_all_answers(data, season_num, players, max_episode) ==
    SelectSeq(data[season_num].answers,
              LAMBDA a : a.player \in players /\ a.episode <= max_episode)

\* Episode.get_all_answers(players, max_episode), the episode being ep of season_num
episode_get_all_answers(data, season_num, ep, players, max_episode) ==
    SelectSeq(data[season_num].answers,
              LAMBDA a : a.episode = ep /\ a.player \in players /\ ep <= max_episode)

\* ExamDropEncoder.extract_features(sample, max_episode): a vector of width 2
extract_features(sample, max_episode) ==
    <<sample.exam_episode + Min(sample.episode, max_episode), sample.exam_episode>>

\* the value of __entropy on the columns extract_features gives
ExtractorEntropy == [i \in 1..2 |-> [b \in 2..4 |-> b - 1]]

-----------------------------------------------------------------------------
(* sklearn: KBinsDiscretizer, SelectFpr, PCA                               *)

\* KBinsDiscretizer(n_bins, encode = "onehot-dense", strategy = "kmeans").fit
KBinsFit(n_bins, input, id) ==
    [made_by |-> id,
     n_bins |-> n_bins,
     values |-> [i \in 1..Width(input) |-> {input[r][i] : r \in 1..Len(input)}]]

\* the bins feature i really has (a constant feature has one)
KBinsWidth(d, i) == Min(d.n_bins[i], Cardinality(d.values[i]))

KBinsBinOf(d, i, v) ==
    Min(KBinsWidth(d, i) - 1, Cardinality({t \in d.values[i] : t < v}))

OneHot(b, n) == [k \in 1..n |-> IF k = b + 1 THEN 1 ELSE 0]

\* KBinsDiscretizer.transform
KBinsTransform(d, input) ==
    [r \in 1..Len(input) |->
        Flatten([i \in 1..Len(d.n_bins) |->
                    OneHot(KBinsBinOf(d, i, input[r][i]), KBinsWidth(d, i))])]

\* SelectFpr(f_classif, alpha).fit: the columns with a p-value below alpha
SelectFprFit(alpha, input, output, id) ==
    [made_by |-> id,
     alpha |-> alpha,
     support |-> {j \in 1..Width(input) :
                     /\ alpha > 0
                     /\ \E r1, r2 \in 1..Len(input) : input[r1][j] # input[r2][j]}]

\* SelectFpr.transform
SelectFprTransform(f, input) ==
    [r \in 1..Len(input) |->
        LET kept == SelectSeq([j \in 1..Len(input[r]) |-> j], LAMBDA j : j \in f.support)
        IN  [k \in 1..Len(kept) |-> input[r][kept[k]]]]

\* PCA(n_components).fit: it fails on a matrix without columns and on a
\* fraction outside (0, 1]
PCAFit(n_components, input, id) ==
    [made_by |-> id,
     n_components |-> n_components,
     fitted |-> Width(input) > 0 /\ n_components > 0 /\ n_components <= 100]

\* PCA.transform: the projection learned by fit, applied to each row
PCATransform(pca, input) ==
    [r \in 1..Len(input) |-> [projected_by |-> pca.made_by, row |-> input[r]]]

-----------------------------------------------------------------------------
(* ExamDropExtractor                                                       *)

Unset == [made_by |-> 0]

\* __init__
ExamDropExtractorClamped(args) ==
    [predict_season |-> args.predict_season,
     predict_episode |-> args.predict_episode,
     train_seasons |-> args.train_seasons,
     anova_f_significance |-> args.anova_f_significance,
     pca_explain |-> args.pca_explain,
     max_splits |-> Max(0, args.max_splits),
     discretizer |-> Unset,
     anova_f_filter |-> Unset,
     pca |-> Unset]

ExamDropExtractor(args) ==
    [predict_season |-> args.predict_season,
     predict_episode |-> args.predict_episode,
     train_seasons |-> args.train_seasons,
     anova_f_significance |-> args.anova_f_significance,
     pca_explain |-> args.pca_explain,
     max_splits |-> args.max_splits,
     discretizer |-> Unset,
     anova_f_filter |-> Unset,
     pca |-> Unset]

TrainSample(player, season, episode, exam_episode, question, answer, selected_player) ==
    [player |-> player, season |-> season, episode |-> episode,
     exam_episode |-> exam_episode, question |-> question, answer |-> answer,
     selected_player |-> selected_player]

PredictSample(in_answer, out_answer, in_features, out_features, weight) ==
    [in_answer |-> in_answer, out_answer |-> out_answer,
     in_features |-> in_features, out_features |-> out_features, weight |-> weight]

\* __get_season_data; selected_player is <<"player", p>> or <<"bool", b>>
get_season_data(data, season_num, max_episode, training_data) ==
    LET drop_players == get_drop_mapping(data, season_num, max_episode)
        all_answers == season_get_all_answers(data, season_num, DOMAIN drop_players,
                                              max_episode)
        rows(answer) ==
            LET drop_episodes == SelectSeq(drop_players[answer.player],
                                           LAMBDA e : answer.episode <= e)
                sample(sel) == TrainSample(answer.player, season_num, MinOf(drop_episodes),
                                           answer.episode, answer.question, answer.answer,
                                           sel)
                players == EpisodePlayers(answer.episode)
            IN  IF drop_episodes = <<>> THEN <<>>
                ELSE IF training_data
                     THEN [k \in 1..Len(players) |-> sample(<<"player", players[k]>>)]
                     ELSE <<sample(<<"bool", FALSE>>), sample(<<"bool", TRUE>>)>>
    IN  Flatten([k \in 1..Len(all_answers) |-> rows(all_answers[k])])

\* lines 203-206
answered_on(sample) ==
    IF sample.selected_player[1] = "bool"
    THEN IF sample.selected_player[2] THEN 1 ELSE 0
    ELSE IF sample.selected_player[2] \in sample.answer THEN 1 ELSE 0

\* __add_answered_on_feature with "np.append(features, features)" at line 207
add_answered_on_feature_unscaled(samples, all_features) ==
    [k \in 1..Min(Len(samples), Len(all_features)) |->
        LET a == answered_on(samples[k])
            features == all_features[k]
        IN  features \o features \o <<a>>]

\* __add_answered_on_feature
add_answered_on_feature(samples, all_features) ==
    [k \in 1..Min(Len(samples), Len(all_features)) |->
        LET a == answered_on(samples[k])
            features == all_features[k]
        IN  features \o [j \in 1..Len(features) |-> a * features[j]] \o <<a>>]

\* __get_train_weights with "{sample.player}" replaced by all players (line 227)
get_train_weights_all_players(data, train_data) ==
    [k \in 1..Len(train_data) |->
        <<1, Len(episode_get_all_answers(data, train_data[k].season,
                                         train_data[k].exam_episode,
                                         Players, maxsize))>>]

\* __get_train_weights: the weight 1 / n is <<1, n>>
get_train_weights(data, train_data) ==
    [k \in 1..Len(train_data) |->
        <<1, Len(episode_get_all_answers(data, train_data[k].season,
                                         train_data[k].exam_episode,
                                         {train_data[k].player}, maxsize))>>]

\* what a call leaves behind
Outcome(op, raised, samples, binned, augmented, weights, ret) ==
    [op |-> op, raised |-> raised, data |-> samples, binned |-> binned,
     augmented |-> augmented, weights |-> weights, ret |-> ret]

\* the seasons of a set, in iteration order
RECURSIVE SeasonSeq(_)
SeasonSeq(S) ==
    IF S = {} THEN <<>>
    ELSE LET x == CHOOSE y \in S : \A z \in S : y <= z
         IN  <<x>> \o SeasonSeq(S \ {x})

\* lines 55-57
TrainData(s, data) ==
    LET seasons == SeasonSeq(s.train_seasons)
    IN  Flatten([k \in 1..Len(seasons) |->
                    get_season_data(data, seasons[k], maxsize, TRUE)])

\* lines 58 and 84
Features(samples, max_episode) ==
    [k \in 1..Len(samples) |-> extract_features(samples[k], max_episode)]

\* line 59
TrainOutput(train_data) ==
    [k \in 1..Len(train_data) |->
        IF get_is_mol(train_data[k].selected_player[2]) THEN 1 ELSE 0]

\* "self.__x = value" on an attribute that keeps a value only once
SetAttrOnce(old, value) == IF old = Unset THEN value ELSE old

\* "self.__x = value" (lines 62, 66, 68): the attribute is replaced
SetAttr(old, value) == value

\* line 81 left out
NeverEmpty(predict_data) == FALSE

\* line 81: "if not predict_data"
NoPredictData(predict_data) == predict_data = <<>>

\* lines 92-95: zip(predict_data[::2], predict_input[1::2], predict_input[::2], weights)
PairUp(predict_data, predict_input, weights) ==
    [j \in 1..(Len(predict_data) \div 2) |->
        LET d == predict_data[2 * j - 1]
            ps == EpisodePlayers(d.exam_episode)
        IN  PredictSample(d.answer, {ps[k] : k \in 1..Len(ps)} \ d.answer,
                          predict_input[2 * j], predict_input[2 * j - 1], weights[j])]

-----------------------------------------------------------------------------
(* Spec: one extractor, constructed with some arguments, then called       *)

MaxTrainCalls == 2   \* get_train_data calls made on one extractor

\* (anova_f_significance, pca_explain, max_splits): valid, or one argument invalid
Configurations == {<<5, 95, 1>>, <<0, 95, 1>>, <<5, 150, 1>>, <<5, 95, -1>>}

ConstructorArgs ==
    {[predict_season |-> PredictSeason,
      predict_episode |-> ep,
      train_seasons |-> {TrainSeason},
      anova_f_significance |-> c[1],
      pca_explain |-> c[2],
      max_splits |-> c[3]] : ep \in Episodes, c \in Configurations}

Init ==
    /\ \E lists \in {l \in [Seasons -> AnswerLists] :
                        Len(l[TrainSeason]) + Len(l[PredictSeason]) <= MaxAnswers},
          drops \in DropTables :
            EXAM_DATA = [season \in Seasons |-> SeasonData(lists[season], drops)]
    /\ ctor_args \in ConstructorArgs
    /\ self = ExamDropExtractor(ctor_args)
    /\ call = Outcome("none", "none", <<>>, <<>>, <<>>, <<>>, <<>>)
    /\ train_calls = 0
    /\ ent = ExtractorEntropy
    /\ train_input = <<>>
    /\ max_splits = 0
    /\ num_bins = <<>>
    /\ max_bins = <<>>
    /\ entropies = <<>>
    /\ options = <<>>
    /\ splits_done = 0
    /\ pc = "idle"

\* get_train_data (lines 55-70)
GetTrainData ==
    /\ train_calls < MaxTrainCalls
    /\ train_calls' = train_calls + 1
    /\ \E train_data \in {TrainData(self, EXAM_DATA)} :
         IF train_data = <<>>
         THEN \* train_input[0] of an empty array raises IndexError (line 146)
              /\ self' = self
              /\ call' = Outcome("get_train_data", "IndexError", train_data,
                                 <<>>, <<>>, <<>>, <<>>)
         ELSE \E raw \in {Features(train_data, maxsize)},
                 train_output \in {TrainOutput(train_data)} :
              \E discretizer \in {KBinsFit(get_num_bins(ent, raw, self.max_splits),
                                           raw, train_calls + 1)} :
              \E binned \in {KBinsTransform(discretizer, raw)} :
              \E augmented \in {add_answered_on_feature(train_data, binned)} :
              \E anova_f_filter \in {SelectFprFit(self.anova_f_significance, augmented,
                                                  train_output, train_calls + 1)} :
              \E filtered \in {SelectFprTransform(anova_f_filter, augmented)} :
              \E pca \in {PCAFit(self.pca_explain, filtered, train_calls + 1)} :
                /\ self' = [self EXCEPT
                              !.discretizer = SetAttr(@, discretizer),
                              !.anova_f_filter = SetAttr(@, anova_f_filter),
                              !.pca = SetAttr(@, pca)]
                /\ IF pca.fitted
                   THEN \E weights \in {get_train_weights(EXAM_DATA, train_data)} :
                          call' = Outcome("get_train_data", "none", train_data, binned,
                                          augmented, weights,
                                          <<PCATransform(self'.pca, filtered),
                                            train_output, weights>>)
                   ELSE \* PCA.fit_transform raises ValueError (line 69)
                        call' = Outcome("get_train_data", "ValueError", train_data,
                                        binned, augmented, <<>>, <<>>)
    /\ UNCHANGED <<EXAM_DATA, ctor_args, ent, alloc_vars>>

\* get_predict_data (lines 80-96)
GetPredictData ==
    /\ \E predict_data \in {get_season_data(EXAM_DATA, self.predict_season,
                                            self.predict_episode, FALSE)} :
         IF NoPredictData(predict_data)
         THEN call' = Outcome("get_predict_data", "none", predict_data,
                              <<>>, <<>>, <<>>, <<>>)
         ELSE IF self.discretizer = Unset
         THEN \* self.__discretizer does not exist (line 85)
              call' = Outcome("get_predict_data", "AttributeError", predict_data,
                              <<>>, <<>>, <<>>, <<>>)
         ELSE \E raw \in {Features(predict_data, self.predict_episode)} :
              \E binned \in {KBinsTransform(self.discretizer, raw)} :
              \E augmented \in {add_answered_on_feature(predict_data, binned)} :
              \E filtered \in {SelectFprTransform(self.anova_f_filter, augmented)} :
                IF ~self.pca.fitted
                THEN \* PCA.transform before a fit that succeeded (line 88)
                     call' = Outcome("get_predict_data", "NotFittedError", predict_data,
                                     binned, augmented, <<>>, <<>>)
                ELSE \E predict_input \in {PCATransform(self.pca, filtered)},
                        weights \in {get_train_weights(EXAM_DATA, predict_data)} :
                       call' = Outcome("get_predict_data", "none", predict_data, binned,
                                       augmented, weights,
                                       PairUp(predict_data, predict_input, weights))
    /\ UNCHANGED <<EXAM_DATA, ctor_args, self, train_calls, ent, alloc_vars>>

Next == GetTrainData \/ GetPredictData

Spec == Init /\ [][Next]_vars

-----------------------------------------------------------------------------
(* Properties of get_num_bins                                              *)

\* number of distinct raw values of feature i: len(set(column))
Distinct(i) == Cardinality({train_input[r][i] : r \in 1..Len(train_input)})

AllocFeatures == 1..Width(train_input)

RECURSIVE SumOver(_, _)
SumOver(f, n) == IF n = 0 THEN 0 ELSE f[n] + SumOver(f, n - 1)

\* the features an entry of the priority queue names
Queued == {options[k][2] : k \in 1..Len(options)}

\* features whose bin count is below their distinct-value cap
BelowCap == {j \in AllocFeatures : num_bins[j] < Distinct(j)}

\* entropy increase of feature j from its current bin count to one more
Gain(j) == entropy(ent, j, num_bins[j] + 1) - entropy(ent, j, num_bins[j])

\* C4: a feature with at most 2 distinct raw values has exactly 2 bins before,
\* during and after the allocation loop, and is never in the priority queue.
C4_TwoValuedStaysAtTwo ==
    pc # "start" =>
        \A i \in AllocFeatures :
            Distinct(i) <= 2 => num_bins[i] = 2 /\ i \notin Queued

C4_Witness ==
    /\ pc = "done"
    /\ \E i \in AllocFeatures : Distinct(i) = 2
    /\ \E j \in AllocFeatures : num_bins[j] > 2
    /\ splits_done < max_splits

\* C5: for the same matrix, a budget k1 below the budget of this call gives
\* every feature at most the bins this call returned, and the returned total
\* is at least 2 x numFeatures.
C5_MonotoneInBudget ==
    pc = "done" =>
        /\ num_bins = get_num_bins(ent, train_input, max_splits)
        /\ \A k1 \in 0..max_splits : \A i \in AllocFeatures :
              get_num_bins(ent, train_input, k1)[i] <= num_bins[i]
        /\ SumOver(num_bins, Len(num_bins)) >= 2 * Len(num_bins)

C5_Witness ==
    /\ pc = "done"
    /\ splits_done >= 2
    /\ \E k1 \in 1..(max_splits - 1) :
          get_num_bins(ent, train_input, k1) # num_bins

\* C8: every iteration increments the feature with the highest entropy gain
\* among those below their cap, the lowest index among equal gains, and the
\* tracked entropy of each feature is the entropy at its current bin count.
C8_GreedyHighestGain ==
    [][/\ pc' = "loop" =>
            \A j \in AllocFeatures : entropies'[j] = entropy(ent, j, num_bins'[j])
       /\ (pc = "loop" /\ num_bins' # num_bins) =>
            \E i \in BelowCap :
                /\ \A j \in BelowCap :
                      Gain(j) < Gain(i) \/ (Gain(j) = Gain(i) /\ i <= j)
                /\ num_bins' = [num_bins EXCEPT ![i] = @ + 1]]_vars

C8_Witness ==
    /\ pc = "loop"
    /\ splits_done >= 1
    /\ \E i, j \in BelowCap : i < j /\ Gain(i) = Gain(j)
    /\ \E i, j \in AllocFeatures : num_bins[i] > 2 /\ num_bins[j] = 2 /\ j < i

-----------------------------------------------------------------------------
(* Properties of the extractor                                             *)

\* the state of self right after construction
Constructed == ExamDropExtractor(ctor_args)

\* the configuration the specification calls valid: threshold in (0, 1),
\* fraction in (0, 1], budget not negative
ValidConfiguration(s) ==
    /\ s.anova_f_significance > 0 /\ s.anova_f_significance < 100
    /\ s.pca_explain > 0 /\ s.pca_explain <= 100
    /\ s.max_splits >= 0

\* answers the participant of the sample gave in the episode of the sample
AnswersOf(sample) ==
    Cardinality({k \in 1..Len(EXAM_DATA[sample.season].answers) :
                    /\ EXAM_DATA[sample.season].answers[k].player = sample.player
                    /\ EXAM_DATA[sample.season].answers[k].episode = sample.exam_episode})

PairOf(sample) == <<sample.player, sample.exam_episode>>

RECURSIVE Factorial(_)
Factorial(n) == IF n <= 1 THEN 1 ELSE n * Factorial(n - 1)

\* weights <<1, n>> are summed as multiples of 1 / WeightScale
WeightScale == Factorial(MaxAnswers)

ScaledWeight(w) == (WeightScale * w[1]) \div w[2]

\* C1 as stated: predict on an extractor never trained raises and leaves the
\* extractor as constructed, whatever the predict data.
C1_PredictBeforeTrainRaises ==
    (train_calls = 0 /\ call.op = "get_predict_data") =>
        (call.raised # "none" /\ self = Constructed)

\* C1 amended: predict on an extractor never trained leaves the extractor as
\* constructed; it raises when there are raw observations and returns the
\* empty list when there are none.
C1_PredictBeforeTrain ==
    (train_calls = 0 /\ call.op = "get_predict_data") =>
        /\ self = Constructed
        /\ call.data # <<>> => call.raised = "AttributeError"
        /\ call.data = <<>> => (call.raised = "none" /\ call.ret = <<>>)

C1_Witness ==
    /\ train_calls = 0
    /\ call.op = "get_predict_data"
    /\ call.raised = "AttributeError"
    /\ Len(call.data) >= 4

\* C2 as stated: once assigned, the fitted state is never assigned again.
C2_FittedStateAssignedOnce ==
    [][/\ self.discretizer # Unset => self'.discretizer = self.discretizer
       /\ self.anova_f_filter # Unset => self'.anova_f_filter = self.anova_f_filter
       /\ self.pca # Unset => self'.pca = self.pca]_vars

\* C2 amended: every get_train_data call that has train data, a repeated one
\* too, assigns a discretizer, filter and projection made by that call;
\* get_predict_data assigns nothing.
C2_TrainRefits ==
    [][/\ (train_calls' = train_calls + 1 /\ call'.data # <<>>) =>
            /\ self'.discretizer.made_by = train_calls'
            /\ self'.anova_f_filter.made_by = train_calls'
            /\ self'.pca.made_by = train_calls'
       /\ train_calls' = train_calls => self' = self]_vars

C2_Witness ==
    /\ train_calls = 2
    /\ call.op = "get_train_data"
    /\ call.raised = "none"
    /\ self.discretizer.made_by = 2

\* C3 as stated: no call runs on an extractor whose configuration is invalid.
C3_NoCallWithInvalidConfiguration ==
    call.op # "none" => ValidConfiguration(self)

\* C3 amended: the constructor keeps its arguments as given, valid or not, and
\* no call changes them.
C3_ArgumentsKeptAsGiven ==
    /\ self.predict_season = ctor_args.predict_season
    /\ self.predict_episode = ctor_args.predict_episode
    /\ self.train_seasons = ctor_args.train_seasons
    /\ self.anova_f_significance = ctor_args.anova_f_significance
    /\ self.pca_explain = ctor_args.pca_explain
    /\ self.max_splits = ctor_args.max_splits

C3_Witness ==
    /\ self.max_splits < 0
    /\ call.op = "get_train_data"
    /\ call.raised = "none"
    /\ \A i \in 1..Len(self.discretizer.n_bins) : self.discretizer.n_bins[i] = 2

\* C6 as stated: the weights of the samples of one (participant, episode) pair
\* sum to 1, in the train data and in the predict samples.
C6_WeightsSumToOne ==
    /\ (call.op = "get_train_data" /\ call.raised = "none") =>
          \A k \in 1..Len(call.data) :
              SumSeq([l \in 1..Len(call.data) |->
                         IF PairOf(call.data[l]) = PairOf(call.data[k])
                         THEN ScaledWeight(call.ret[3][l]) ELSE 0]) = WeightScale
    /\ (call.op = "get_predict_data" /\ call.raised = "none") =>
          \A j \in 1..Len(call.ret) :
              SumSeq([l \in 1..Len(call.ret) |->
                         IF PairOf(call.data[2 * l - 1]) = PairOf(call.data[2 * j - 1])
                         THEN ScaledWeight(call.ret[l].weight) ELSE 0]) = WeightScale

\* C6 amended: every row of a pair with n answers has weight 1 / n; the rows
\* of a pair sum to the number of candidates of the episode in the train data
\* and to 2 in the raw predict rows.
C6_WeightsPerAnswer ==
    (call.op # "none" /\ call.raised = "none") =>
        /\ Len(call.weights) = Len(call.data)
        /\ \A k \in 1..Len(call.data) :
              /\ call.weights[k] = <<1, AnswersOf(call.data[k])>>
              /\ SumSeq([l \in 1..Len(call.data) |->
                            IF PairOf(call.data[l]) = PairOf(call.data[k])
                            THEN ScaledWeight(call.weights[l]) ELSE 0])
                 = WeightScale * (IF call.op = "get_train_data"
                                  THEN Len(EpisodePlayers(call.data[k].exam_episode))
                                  ELSE 2)
        /\ call.op = "get_train_data" => call.ret[3] = call.weights

C6_Witness ==
    /\ call.op = "get_train_data"
    /\ call.raised = "none"
    /\ \E k \in 1..Len(call.data) :
          /\ call.weights[k] = <<1, 2>>
          /\ Len(EpisodePlayers(call.data[k].exam_episode)) = 2

\* the selected slot is the boolean true, or a participant in the answer set
SelectedInAnswer(sample) ==
    IF sample.selected_player[1] = "bool"
    THEN sample.selected_player[2]
    ELSE sample.selected_player[2] \in sample.answer

\* C7: every augmented row is the W values of the binned row, then answeredOn
\* times each of them, then answeredOn, which is 0 or 1 and is 1 exactly when
\* the selected slot is true or a participant of the answer set.
C7_AugmentedRows ==
    /\ Len(call.augmented) = Len(call.binned)
    /\ \A k \in 1..Len(call.augmented) :
          LET row == call.binned[k]
              out == call.augmented[k]
          IN  /\ Len(out) = 2 * Len(row) + 1
              /\ out[Len(out)] \in {0, 1}
              /\ out[Len(out)] = 1 <=> SelectedInAnswer(call.data[k])
              /\ \A j \in 1..Len(row) :
                    /\ out[j] = row[j]
                    /\ out[Len(row) + j] = out[Len(out)] * row[j]

C7_Witness ==
    /\ call.op = "get_train_data"
    /\ \E k, l \in 1..Len(call.augmented) :
          /\ call.augmented[k][Len(call.augmented[k])] = 1
          /\ call.augmented[l][Len(call.augmented[l])] = 0
          /\ Len(call.binned[k]) = 5

\* row k of the predict data after the whole transform
Transformed(k) ==
    PCATransform(self.pca, SelectFprTransform(self.anova_f_filter,
                                              <<call.augmented[k]>>))[1]

\* C9: predict returns one sample per answer, made of the transformed excluded
\* and included rows of that answer, the weight of that answer, and disjoint
\* participant sets.
C9_SamplePerAnswer ==
    (call.op = "get_predict_data" /\ call.raised = "none") =>
        /\ 2 * Len(call.ret) = Len(call.data)
        /\ \A j \in 1..Len(call.ret) :
              LET excluded == call.data[2 * j - 1]
                  included == call.data[2 * j]
              IN  /\ excluded.selected_player = <<"bool", FALSE>>
                  /\ included.selected_player = <<"bool", TRUE>>
                  /\ [included EXCEPT !.selected_player = <<"bool", FALSE>>] = excluded
                  /\ call.ret[j].out_features = Transformed(2 * j - 1)
                  /\ call.ret[j].in_features = Transformed(2 * j)
                  /\ call.ret[j].weight = <<1, AnswersOf(excluded)>>
                  /\ call.ret[j].in_answer = excluded.answer
                  /\ call.ret[j].in_answer \cap call.ret[j].out_answer = {}

====
